---- MODULE Spec2Model ----
(***************************************************************************)
(* Model of the model-lifecycle service: the parameter normaliser, the    *)
(* metrics calculator and the training orchestrator of models.py, and the *)
(* catalog handlers of app.py / grpc_server.py that call them.            *)
(*                                                                         *)
(* Values of Python are records [t, s, n]: t is the Python type, s the    *)
(* characters of a str (a sequence of one-character strings), n the       *)
(* number of an int, or of a float in units of 1/FloatScale.              *)
(***************************************************************************)
EXTENDS Integers, Sequences, FiniteSets, TLC

\* ------------------------------------------------------------------ bounds
\* worker threads serving requests
NumThreads == 2
\* runs the tracking store hands out (run ids 1..MaxRuns)
MaxRuns == 2
\* longest string value given to convert_params
MaxStrLen == 3

Threads == 1..NumThreads
RunIds == 1..MaxRuns

\* --------------------------------------------------------- Python values
DecimalChars == {"0", "5"}
\* "sup2" stands for U+00B2 SUPERSCRIPT TWO: str.isdigit() is True for it,
\* int() and float() reject it.
DigitChars == DecimalChars \cup {"sup2"}
Chars == DigitChars \cup {"-", ".", "a"}

RECURSIVE Pow10(_)
Pow10(k) == IF k = 0 THEN 1 ELSE 10 * Pow10(k - 1)

FloatScale == Pow10(MaxStrLen)

PyStr(s) == [t |-> "str", s |-> s, n |-> 0]
PyInt(n) == [t |-> "int", s |-> <<>>, n |-> n]
PyFloat(n) == [t |-> "float", s |-> <<>>, n |-> n]
PyBool(n) == [t |-> "bool", s |-> <<>>, n |-> n]

DigitVal(c) == IF c = "5" THEN 5 ELSE 0

RECURSIVE DigitsValue(_)
DigitsValue(s) ==
    IF Len(s) = 0 THEN 0
    ELSE 10 * DigitsValue(SubSeq(s, 1, Len(s) - 1)) + DigitVal(s[Len(s)])

\* str.isdigit(): non-empty and every character has the digit property
isdigit(s) == Len(s) > 0 /\ \A i \in 1..Len(s) : s[i] \in DigitChars

\* int(s) raises ValueError unless s is an optionally signed run of
\* decimal digits
IntRaises(s) ==
    LET u == IF Len(s) > 0 /\ s[1] = "-" THEN Tail(s) ELSE s
    IN  Len(u) = 0 \/ \E i \in 1..Len(u) : u[i] \notin DecimalChars

IntValue(s) ==
    IF Len(s) > 0 /\ s[1] = "-" THEN 0 - DigitsValue(Tail(s))
    ELSE DigitsValue(s)

\* float(s): [sign] digits [. digits] with at least one digit
Unsigned(s) == IF Len(s) > 0 /\ s[1] = "-" THEN Tail(s) ELSE s

Dots(u) == {i \in 1..Len(u) : u[i] = "."}

FloatRaises(s) ==
    LET u == Unsigned(s)
    IN  \/ Cardinality(Dots(u)) > 1
        \/ Len(u) - Cardinality(Dots(u)) = 0
        \/ \E i \in 1..Len(u) : u[i] \notin DecimalChars \cup {"."}

FloatValue(s) ==
    LET u == Unsigned(s)
        d == IF Dots(u) = {} THEN Len(u) + 1 ELSE CHOOSE i \in Dots(u) : TRUE
        ip == SubSeq(u, 1, d - 1)
        fp == SubSeq(u, d + 1, Len(u))
        mag == DigitsValue(ip) * FloatScale
               + DigitsValue(fp) * Pow10(MaxStrLen - Len(fp))
    IN  IF Len(s) > 0 /\ s[1] = "-" THEN 0 - mag ELSE mag

\* ------------------------------------------------------ convert_params
\* One value of the loop body of convert_params; "raises" is the
\* ValueError of int(value) that nothing catches.
ConvertValue(v) ==
    IF v.t = "str"
    THEN IF isdigit(v.s)
         THEN IF IntRaises(v.s)
              THEN [raises |-> TRUE, value |-> v]
              ELSE [raises |-> FALSE, value |-> PyInt(IntValue(v.s))]
         ELSE IF ~FloatRaises(v.s)
              THEN [raises |-> FALSE, value |-> PyFloat(FloatValue(v.s))]
              ELSE [raises |-> FALSE, value |-> v]
    ELSE [raises |-> FALSE, value |-> v]

convert_params(params) ==
    [raises |-> \E k \in DOMAIN params : ConvertValue(params[k]).raises,
     value |-> [k \in DOMAIN params |-> ConvertValue(params[k]).value]]

\* ---------------------------------------------------- calculate_metrics
\* metric values are floats in [0, 1], held in units of 1/MetricScale
MetricScale == 1000
MetricKeys == {"accuracy", "precision", "recall"}
Labels == {0, 1}

ZeroMetrics == [k \in MetricKeys |-> 0]

EmptyMap == [k \in {} |-> 0]

Support(y, c) == Cardinality({i \in 1..Len(y) : y[i] = c})
TruePos(yt, yp, c) == Cardinality({i \in 1..Len(yt) : yt[i] = c /\ yp[i] = c})

RECURSIVE SumOver(_, _, _)
SumOver(S, yt, yp) ==
    IF S = {} THEN 0
    ELSE LET c == CHOOSE x \in S : TRUE
             den == Support(yp, c)
             term == IF den = 0 THEN 0
                     ELSE (MetricScale * Support(yt, c) * TruePos(yt, yp, c)) \div den
         IN  term + SumOver(S \ {c}, yt, yp)

\* the sklearn scorers raise on inputs of different lengths
ScoreRaises(y_true, y_pred) == Len(y_true) # Len(y_pred) \/ Len(y_true) = 0

\* variant: the fallback mapping leaves the metric keys out
calculate_metrics_NoKeys(y_true, y_pred) ==
    IF ScoreRaises(y_true, y_pred)
    THEN EmptyMap
    ELSE LET n == Len(y_true)
             hits == Cardinality({i \in 1..n : y_true[i] = y_pred[i]})
         IN  [k \in MetricKeys |->
                IF k = "precision" THEN SumOver(Labels, y_true, y_pred) \div n
                ELSE (MetricScale * hits) \div n]

calculate_metrics(y_true, y_pred) ==
    IF ScoreRaises(y_true, y_pred)
    THEN ZeroMetrics
    ELSE LET n == Len(y_true)
             hits == Cardinality({i \in 1..n : y_true[i] = y_pred[i]})
         IN  [k \in MetricKeys |->
                IF k = "precision" THEN SumOver(Labels, y_true, y_pred) \div n
                ELSE (MetricScale * hits) \div n]

\* ------------------------------------------------------- registry, inputs
AVAILABLE_MODELS ==
    [m \in {"random_forest", "logistic_regression"} |->
        IF m = "random_forest"
        THEN [class |-> "RandomForestClassifier",
              hyperparameters |-> <<"n_estimators", "max_depth", "random_state">>]
        ELSE [class |-> "LogisticRegression",
              hyperparameters |-> <<"C", "solver", "max_iter">>]]

\* train requests: params delivered as a string, params already typed, and
\* a model type the registry does not have
TrainInputs ==
    { [model_type |-> "random_forest",
       params |-> ("n_estimators" :> PyStr(<<"5", "0">>))],
      [model_type |-> "logistic_regression",
       params |-> ("C" :> PyFloat(500)) @@ ("solver" :> PyStr(<<"a">>))],
      [model_type |-> "no_such_model",
       params |-> ("n_estimators" :> PyStr(<<"5", "0">>))] }

\* the labels y of a request, and what the fitted estimator's predict returns
YInputs == {<<>>, <<0, 1>>}
PredictOutputs == {<<0, 1>>, <<1, 1>>, <<1>>}

\* ------------------------------------------------------------------ state
VARIABLES
    catalog,     \* the MLModel table: rows in insertion order
    runs,        \* the tracking store: runs[i] is the run with run_id i
    activeRun,   \* the tracking store's ambient active run (0: none)
    clock,       \* datetime.now(), one tick per reading
    live,        \* ids handed out by 201/200 responses and not removed since
    serialized,  \* callers send one request at a time (spec section 5)
    req,         \* per worker thread: the request it is serving
    cin, cout    \* input and result of a stand-alone convert_params call

vars == <<catalog, runs, activeRun, clock, live, serialized, req, cin, cout>>

Idle ==
    [pc |-> "idle", op |-> "", id |-> 0, model_type |-> "", params |-> EmptyMap,
     y |-> <<>>, degraded |-> FALSE, rec |-> <<>>, conv |-> EmptyMap, est |-> <<>>,
     metrics |-> EmptyMap, run |-> 0, run_id |-> 0, uri |-> <<>>,
     logfail |-> FALSE, warned |-> FALSE, stale |-> 0,
     exc |-> "", site |-> "", status |-> 0, rows |-> <<>>,
     cat0 |-> <<>>, nruns0 |-> 0]

\* ---------------------------------------------------------------- catalog
IdsOf(cat) == {cat[i].id : i \in 1..Len(cat)}

\* MLModel.query.filter_by(id=model_id).first()
Lookup(cat, model_id) ==
    LET hits == {i \in 1..Len(cat) : cat[i].id = model_id}
    IN  IF hits = {} THEN <<>>
        ELSE <<cat[CHOOSE i \in hits : \A j \in hits : i <= j]>>

\* variant: the row is never removed
DeleteRow_KeepAll(cat, model_id) == cat

\* db.session.delete(record) as the commit applies it
DeleteRow(cat, model_id) ==
    LET Other(r) == r.id # model_id IN SelectSeq(cat, Other)

\* f"runs:/{run_id}/model"
ModelUri(run_id) == <<"runs:/", run_id, "/model">>

create_model_record(model_id, model_type, params, file_path, metrics) ==
    [id |-> model_id, model_type |-> model_type, params |-> params,
     file_path |-> file_path, created_at |-> clock, metrics |-> metrics]

to_dict(row) ==
    [id |-> row.id, model_type |-> row.model_type, params |-> row.params,
     created_at |-> row.created_at, metrics |-> row.metrics]

\* ------------------------------------------------------------ transport
\* the status each abort / return site of app.py produces
RestStatus(op, site) ==
    CASE site = "unsupported" -> 400
      [] site = "not_found" -> 404
      [] site = "failed" -> 500
      [] site = "error" -> 500
      [] OTHER -> IF op = "train" THEN 201 ELSE IF op = "delete" THEN 204 ELSE 200

\* the status code the same site of grpc_server.py produces
GrpcStatus(op, site) ==
    CASE site = "unsupported" -> "INVALID_ARGUMENT"
      [] site = "not_found" -> "NOT_FOUND"
      [] site = "failed" -> "INTERNAL"
      [] site = "error" -> IF op \in {"train", "retrain"} THEN "INTERNAL" ELSE "UNKNOWN"
      [] OTHER -> "OK"

\* abort(...) / context.abort(...): the request ends with that site's status
Abort(r, site, exc) ==
    [r EXCEPT !.pc = "done", !.site = site, !.exc = exc,
              !.status = RestStatus(r.op, site)]

Reply(r) ==
    [r EXCEPT !.pc = "done", !.site = "ok", !.status = RestStatus(r.op, "ok")]

\* -------------------------------------------------------- tracking store
NewRun ==
    [status |-> "RUNNING", logged |-> {}, tag |-> "",
     params |-> EmptyMap, metrics |-> EmptyMap, model |-> <<>>]

\* variant: the request's raw params are logged
LogUpTo_RawParams(run, k, r) ==
    [run EXCEPT
        !.logged = @ \cup (IF k >= 1 THEN {"model_type"} ELSE {})
                     \cup (IF k >= 2 THEN {"params"} ELSE {})
                     \cup (IF k >= 3 THEN {"metrics"} ELSE {})
                     \cup (IF k >= 4 THEN {"model"} ELSE {}),
        !.tag = IF k >= 1 THEN r.model_type ELSE @,
        !.params = IF k >= 2 THEN r.params ELSE @,
        !.metrics = IF k >= 3 THEN r.metrics ELSE @,
        !.model = IF k >= 4 THEN r.est ELSE @]

\* the first k of log_param, log_params, log_metrics, log_model succeed
LogUpTo(run, k, r) ==
    [run EXCEPT
        !.logged = @ \cup (IF k >= 1 THEN {"model_type"} ELSE {})
                     \cup (IF k >= 2 THEN {"params"} ELSE {})
                     \cup (IF k >= 3 THEN {"metrics"} ELSE {})
                     \cup (IF k >= 4 THEN {"model"} ELSE {}),
        !.tag = IF k >= 1 THEN r.model_type ELSE @,
        !.params = IF k >= 2 THEN r.conv ELSE @,
        !.metrics = IF k >= 3 THEN r.metrics ELSE @,
        !.model = IF k >= 4 THEN r.est ELSE @]

\* mlflow.end_run(status): ends the ambient active run, whichever it is
EndRun(status) ==
    IF activeRun # 0
    THEN [runs EXCEPT ![activeRun].status = status]
    ELSE runs

\* mlflow.sklearn.load_model(uri) finds the artifact of the run the uri names
ArtifactPresent(uri) ==
    /\ Len(uri) = 3
    /\ uri[2] \in 1..Len(runs)
    /\ "model" \in runs[uri[2]].logged

\* ------------------------------------------------------------ scheduling
CanStart(t) ==
    /\ req[t].pc = "idle"
    /\ serialized => \A u \in Threads : req[u].pc = "idle"

TrainingAhead == {u \in Threads : req[u].pc \in {"recover", "fit", "start_run"}}

CanTrain == Len(runs) + Cardinality(TrainingAhead) < MaxRuns

NewRequest(op) == [Idle EXCEPT !.op = op, !.cat0 = catalog, !.nruns0 = Len(runs)]

\* ----------------------------------------------------------------- Init
Init ==
    /\ catalog = <<>>
    /\ runs = <<>>
    /\ activeRun = 0
    /\ clock = 0
    /\ live = {}
    /\ serialized = TRUE
    /\ req = [t \in Threads |-> Idle]
    /\ cin = EmptyMap
    /\ cout = <<>>

\* ------------------------------------------ POST /models/train, TrainModel
TrainModel_post(t) ==
    /\ CanStart(t)
    /\ \E data \in TrainInputs, y \in YInputs :
          LET mt == data.model_type
              r == [NewRequest("train") EXCEPT
                        !.model_type = mt, !.params = data.params, !.y = y]
          IN  /\ mt \in DOMAIN AVAILABLE_MODELS => CanTrain
              /\ req' = [req EXCEPT ![t] =
                    IF mt \notin DOMAIN AVAILABLE_MODELS
                    THEN Abort(r, "unsupported", "UnsupportedModelType")
                    ELSE [r EXCEPT !.pc = "recover"]]
    /\ UNCHANGED <<catalog, runs, activeRun, clock, live, serialized, cin, cout>>

\* variant: the old record is deleted as the first step of retrain
ModelRetrain_post_DeleteFirst(t) ==
    /\ CanStart(t)
    /\ \E id \in RunIds, y \in YInputs :
          LET found == Lookup(catalog, id)
              r == [NewRequest("retrain") EXCEPT !.id = id, !.y = y]
          IN  /\ found # <<>> => CanTrain
              /\ catalog' = DeleteRow(catalog, id)
              /\ req' = [req EXCEPT ![t] =
                    IF found = <<>>
                    THEN Abort(r, "not_found", "NotFound")
                    ELSE [r EXCEPT !.pc = "recover", !.rec = found,
                                   !.params = found[1].params,
                                   !.model_type = found[1].model_type]]
    /\ UNCHANGED <<runs, activeRun, clock, live, serialized, cin, cout>>

\* variant: a tracking session is opened before the record is looked up
ModelRetrain_post_SessionFirst(t) ==
    /\ CanStart(t)
    /\ CanTrain
    /\ \E id \in RunIds, y \in YInputs :
          LET found == Lookup(catalog, id)
              r == [NewRequest("retrain") EXCEPT !.id = id, !.y = y]
          IN  /\ runs' = Append(runs, NewRun)
              /\ activeRun' = Len(runs) + 1
              /\ req' = [req EXCEPT ![t] =
                    IF found = <<>>
                    THEN Abort(r, "not_found", "NotFound")
                    ELSE [r EXCEPT !.pc = "recover", !.rec = found,
                                   !.params = found[1].params,
                                   !.model_type = found[1].model_type]]
    /\ UNCHANGED <<catalog, clock, live, serialized, cin, cout>>

\* ------------------------------- POST /models/<id>/retrain, RetrainModel
ModelRetrain_post(t) ==
    /\ CanStart(t)
    /\ \E id \in RunIds, y \in YInputs :
          LET found == Lookup(catalog, id)
              r == [NewRequest("retrain") EXCEPT !.id = id, !.y = y]
          IN  /\ found # <<>> => CanTrain
              /\ req' = [req EXCEPT ![t] =
                    IF found = <<>>
                    THEN Abort(r, "not_found", "NotFound")
                    ELSE [r EXCEPT !.pc = "recover", !.rec = found,
                                   !.params = found[1].params,
                                   !.model_type = found[1].model_type]]
    /\ UNCHANGED <<catalog, runs, activeRun, clock, live, serialized, cin, cout>>

\* ------------------------------------------------- train_and_log_model
\* variant: the call goes on without looking at the ambient run
train_recover_NoEnd(t) ==
    /\ req[t].pc = "recover"
    /\ req' = [req EXCEPT ![t] =
                  [@ EXCEPT !.pc = "fit", !.stale = activeRun]]
    /\ UNCHANGED <<catalog, runs, activeRun, clock, live, serialized, cin, cout>>

\* lines 116-118: a stale active run is ended, with a warning; stale keeps
\* which run the call found open
train_recover(t) ==
    /\ req[t].pc = "recover"
    /\ runs' = EndRun("FINISHED")
    /\ activeRun' = 0
    /\ req' = [req EXCEPT ![t] =
                  [@ EXCEPT !.pc = "fit", !.warned = (activeRun # 0),
                            !.stale = activeRun]]
    /\ UNCHANGED <<catalog, clock, live, serialized, cin, cout>>

\* lines 119-125: normalise, construct, fit, predict, compute the metrics.
\* The estimator is external: its constructor and fit may raise, and predict
\* returns some label sequence.  An exception leaves through the handler's
\* except clause (app.py 172-174, 264-266).
train_fit(t) ==
    /\ req[t].pc = "fit"
    /\ \E outcome \in {"ok", "ctor", "fit"}, y_pred \in PredictOutputs :
          LET r == req[t]
              cp == convert_params(r.params)
          IN  req' = [req EXCEPT ![t] =
                IF cp.raises
                THEN Abort(r, "failed", "ValueError")
                ELSE IF r.model_type \notin DOMAIN AVAILABLE_MODELS
                THEN Abort(r, "failed", "KeyError")
                ELSE IF outcome = "ctor"
                THEN Abort(r, "failed", "InvalidHyperparameters")
                ELSE IF outcome = "fit" \/ Len(r.y) = 0
                THEN Abort(r, "failed", "TrainingFailure")
                ELSE [r EXCEPT
                        !.pc = "start_run",
                        !.conv = cp.value,
                        !.est = <<[class |-> AVAILABLE_MODELS[r.model_type].class,
                                   kwargs |-> cp.value]>>,
                        !.y = <<>>,
                        !.degraded = ScoreRaises(r.y, y_pred),
                        !.metrics = calculate_metrics(r.y, y_pred)]]
    /\ UNCHANGED <<catalog, runs, activeRun, clock, live, serialized, cin, cout>>

\* line 127: mlflow.start_run() raises while another run is active, or when
\* the tracking store cannot be reached
train_start_run(t) ==
    /\ req[t].pc = "start_run"
    /\ \E ok \in BOOLEAN :
          IF ok /\ activeRun = 0
          THEN /\ runs' = Append(runs, NewRun)
               /\ activeRun' = Len(runs) + 1
               /\ req' = [req EXCEPT ![t] =
                             [@ EXCEPT !.pc = "log", !.run = Len(runs) + 1]]
          ELSE /\ req' = [req EXCEPT ![t] =
                             Abort(req[t], "failed", "TrackingFailure")]
               /\ UNCHANGED <<runs, activeRun>>
    /\ UNCHANGED <<catalog, clock, live, serialized, cin, cout>>

\* lines 128-131: the fluent log calls write to the ambient active run (and
\* start one when there is none); any of them may raise
train_log(t) ==
    /\ req[t].pc = "log"
    /\ activeRun # 0 \/ Len(runs) < MaxRuns
    /\ \E k \in 0..4 :
          LET base == IF activeRun # 0 THEN runs ELSE Append(runs, NewRun)
              target == IF activeRun # 0 THEN activeRun ELSE Len(runs) + 1
          IN  /\ runs' = [base EXCEPT ![target] = LogUpTo(@, k, req[t])]
              /\ activeRun' = target
              /\ req' = [req EXCEPT ![t] =
                            [@ EXCEPT !.pc = "exit", !.logfail = (k < 4)]]
    /\ UNCHANGED <<catalog, clock, live, serialized, cin, cout>>

\* variant: an exception inside the with block leaves the run open
train_exit_LeaveOpen(t) ==
    /\ req[t].pc = "exit"
    /\ runs' = IF req[t].logfail THEN runs ELSE EndRun("FINISHED")
    /\ activeRun' = IF req[t].logfail THEN activeRun ELSE 0
    /\ req' = [req EXCEPT ![t] =
                  IF req[t].logfail
                  THEN Abort(req[t], "failed", "TrackingFailure")
                  ELSE [@ EXCEPT !.pc = "commit",
                                 !.run_id = req[t].run,
                                 !.uri = ModelUri(req[t].run)]]
    /\ UNCHANGED <<catalog, clock, live, serialized, cin, cout>>

\* lines 132-135 and the exit of the with block: the run is ended, FAILED
\* when the block raised, and the triple is returned
train_exit(t) ==
    /\ req[t].pc = "exit"
    /\ runs' = EndRun(IF req[t].logfail THEN "FAILED" ELSE "FINISHED")
    /\ activeRun' = 0
    /\ req' = [req EXCEPT ![t] =
                  IF req[t].logfail
                  THEN Abort(req[t], "failed", "TrackingFailure")
                  ELSE [@ EXCEPT !.pc = "commit",
                                 !.run_id = req[t].run,
                                 !.uri = ModelUri(req[t].run)]]
    /\ UNCHANGED <<catalog, clock, live, serialized, cin, cout>>

\* ------------------------------------------------------ catalog writes
\* db.session.commit() raises when the database fails or the primary key
\* is already taken; the request's session is then discarded with its
\* pending changes.
CommitOk(dbok, after, row) == dbok /\ Lookup(after, row.id) = <<>>

\* app.py 176-181, grpc_server.py 80-87
TrainModel_commit(t) ==
    /\ req[t].pc = "commit"
    /\ req[t].op = "train"
    /\ \E dbok \in BOOLEAN :
          LET r == req[t]
              record == create_model_record(r.run_id, r.model_type, r.params,
                                            r.uri, r.metrics)
          IN  IF CommitOk(dbok, catalog, record)
              THEN /\ catalog' = Append(catalog, record)
                   /\ live' = live \cup {r.run_id}
                   /\ req' = [req EXCEPT ![t] = Reply(r)]
              ELSE /\ req' = [req EXCEPT ![t] = Abort(r, "error", "CommitFailure")]
                   /\ UNCHANGED <<catalog, live>>
    /\ clock' = clock + 1
    /\ UNCHANGED <<runs, activeRun, serialized, cin, cout>>

\* variant: the new record carries the old record's metrics
ModelRetrain_commit_OldMetrics(t) ==
    /\ req[t].pc = "commit"
    /\ req[t].op = "retrain"
    /\ \E dbok \in BOOLEAN :
          LET r == req[t]
              after == DeleteRow(catalog, r.rec[1].id)
              new_record == create_model_record(r.run_id, r.model_type, r.params,
                                                r.uri, r.rec[1].metrics)
          IN  IF CommitOk(dbok, after, new_record)
              THEN /\ catalog' = Append(after, new_record)
                   /\ live' = (live \ {r.rec[1].id}) \cup {r.run_id}
                   /\ req' = [req EXCEPT ![t] = Reply(r)]
              ELSE /\ req' = [req EXCEPT ![t] = Abort(r, "error", "CommitFailure")]
                   /\ UNCHANGED <<catalog, live>>
    /\ clock' = clock + 1
    /\ UNCHANGED <<runs, activeRun, serialized, cin, cout>>

\* variant: the existing record is updated in place
ModelRetrain_commit_InPlace(t) ==
    /\ req[t].pc = "commit"
    /\ req[t].op = "retrain"
    /\ \E dbok \in BOOLEAN :
          LET r == req[t]
              old == r.rec[1].id
          IN  IF dbok
              THEN /\ catalog' = [i \in 1..Len(catalog) |->
                                    IF catalog[i].id = old
                                    THEN [catalog[i] EXCEPT !.metrics = r.metrics,
                                                            !.file_path = r.uri]
                                    ELSE catalog[i]]
                   /\ req' = [req EXCEPT ![t] = Reply(r)]
              ELSE /\ req' = [req EXCEPT ![t] = Abort(r, "error", "CommitFailure")]
                   /\ UNCHANGED catalog
    /\ clock' = clock + 1
    /\ UNCHANGED <<runs, activeRun, live, serialized, cin, cout>>

\* variant: the delete is committed on its own, before the insert
ModelRetrain_commit_TwoCommits(t) ==
    /\ req[t].pc = "commit"
    /\ req[t].op = "retrain"
    /\ \E dbok \in BOOLEAN, dbok2 \in BOOLEAN :
          LET r == req[t]
              after == DeleteRow(catalog, r.rec[1].id)
              new_record == create_model_record(r.run_id, r.model_type, r.params,
                                                r.uri, r.metrics)
          IN  IF ~dbok
              THEN /\ req' = [req EXCEPT ![t] = Abort(r, "error", "CommitFailure")]
                   /\ UNCHANGED <<catalog, live>>
              ELSE IF CommitOk(dbok2, after, new_record)
              THEN /\ catalog' = Append(after, new_record)
                   /\ live' = (live \ {r.rec[1].id}) \cup {r.run_id}
                   /\ req' = [req EXCEPT ![t] = Reply(r)]
              ELSE /\ catalog' = after
                   /\ live' = live \ {r.rec[1].id}
                   /\ req' = [req EXCEPT ![t] = Abort(r, "error", "CommitFailure")]
    /\ clock' = clock + 1
    /\ UNCHANGED <<runs, activeRun, serialized, cin, cout>>

\* app.py 267-276, grpc_server.py 154-161
ModelRetrain_commit(t) ==
    /\ req[t].pc = "commit"
    /\ req[t].op = "retrain"
    /\ \E dbok \in BOOLEAN :
          LET r == req[t]
              after == DeleteRow(catalog, r.rec[1].id)
              new_record == create_model_record(r.run_id, r.model_type, r.params,
                                                r.uri, r.metrics)
          IN  IF CommitOk(dbok, after, new_record)
              THEN /\ catalog' = Append(after, new_record)
                   /\ live' = (live \ {r.rec[1].id}) \cup {r.run_id}
                   /\ req' = [req EXCEPT ![t] = Reply(r)]
              ELSE /\ req' = [req EXCEPT ![t] = Abort(r, "error", "CommitFailure")]
                   /\ UNCHANGED <<catalog, live>>
    /\ clock' = clock + 1
    /\ UNCHANGED <<runs, activeRun, serialized, cin, cout>>

\* ------------------------------------------------------- other handlers
\* GET /models, ListModels
ListModels_get(t) ==
    /\ CanStart(t)
    /\ req' = [req EXCEPT ![t] =
          Reply([NewRequest("list") EXCEPT
                    !.rows = [i \in 1..Len(catalog) |-> to_dict(catalog[i])]])]
    /\ UNCHANGED <<catalog, runs, activeRun, clock, live, serialized, cin, cout>>

\* GET /models/<id>, GetModel
ModelById_get(t) ==
    /\ CanStart(t)
    /\ \E id \in RunIds :
          LET found == Lookup(catalog, id)
              r == [NewRequest("get") EXCEPT !.id = id]
          IN  req' = [req EXCEPT ![t] =
                IF found = <<>>
                THEN Abort(r, "not_found", "NotFound")
                ELSE Reply([r EXCEPT !.rows = <<to_dict(found[1])>>])]
    /\ UNCHANGED <<catalog, runs, activeRun, clock, live, serialized, cin, cout>>

\* DELETE /models/<id>, DeleteModel: only the catalog row goes, the
\* artifacts of the tracking store stay
ModelById_delete(t) ==
    /\ CanStart(t)
    /\ \E id \in RunIds, dbok \in BOOLEAN :
          LET found == Lookup(catalog, id)
              r == [NewRequest("delete") EXCEPT !.id = id]
          IN  IF found = <<>>
              THEN /\ req' = [req EXCEPT ![t] = Abort(r, "not_found", "NotFound")]
                   /\ UNCHANGED <<catalog, live>>
              ELSE IF dbok
              THEN /\ catalog' = DeleteRow(catalog, found[1].id)
                   /\ live' = live \ {id}
                   /\ req' = [req EXCEPT ![t] = Reply(r)]
              ELSE /\ req' = [req EXCEPT ![t] = Abort(r, "error", "CommitFailure")]
                   /\ UNCHANGED <<catalog, live>>
    /\ UNCHANGED <<runs, activeRun, clock, serialized, cin, cout>>

\* POST /models/<id>/predict, Predict
ModelPredict_post(t) ==
    /\ CanStart(t)
    /\ \E id \in RunIds, outcome \in {"ok", "load", "predict"} :
          LET found == Lookup(catalog, id)
              r == [NewRequest("predict") EXCEPT !.id = id]
          IN  req' = [req EXCEPT ![t] =
                IF found = <<>>
                THEN Abort(r, "not_found", "NotFound")
                ELSE IF outcome = "load" \/ ~ArtifactPresent(found[1].file_path)
                THEN Abort([r EXCEPT !.rec = found], "failed", "ArtifactLoadFailure")
                ELSE IF outcome = "predict"
                THEN Abort([r EXCEPT !.rec = found], "failed", "PredictionFailure")
                ELSE Reply([r EXCEPT !.rec = found])]
    /\ UNCHANGED <<catalog, runs, activeRun, clock, live, serialized, cin, cout>>

\* GET /metrics/<id>, GetMetrics
ModelMetrics_get(t) ==
    /\ CanStart(t)
    /\ \E id \in RunIds :
          LET found == Lookup(catalog, id)
              r == [NewRequest("metrics") EXCEPT !.id = id]
          IN  req' = [req EXCEPT ![t] =
                IF found = <<>>
                THEN Abort(r, "not_found", "NotFound")
                ELSE Reply([r EXCEPT !.metrics = found[1].metrics])]
    /\ UNCHANGED <<catalog, runs, activeRun, clock, live, serialized, cin, cout>>

\* the response has been sent; the worker thread takes the next request
Return(t) ==
    /\ req[t].pc = "done"
    /\ req' = [req EXCEPT ![t] = Idle]
    /\ UNCHANGED <<catalog, runs, activeRun, clock, live, serialized, cin, cout>>

Next ==
    \E t \in Threads :
        \/ TrainModel_post(t)
        \/ ModelRetrain_post(t)
        \/ train_recover(t)
        \/ train_fit(t)
        \/ train_start_run(t)
        \/ train_log(t)
        \/ train_exit(t)
        \/ TrainModel_commit(t)
        \/ ModelRetrain_commit(t)
        \/ ListModels_get(t)
        \/ ModelById_get(t)
        \/ ModelById_delete(t)
        \/ ModelPredict_post(t)
        \/ ModelMetrics_get(t)
        \/ Return(t)

Spec == Init /\ [][Next]_vars

\* ------------------------------------------- requests served in parallel
\* grpc.server(ThreadPoolExecutor(max_workers=5)) and the threaded Flask
\* server hand overlapping requests to different worker threads, and no
\* handler takes a lock: the steps of the requests interleave freely.
InitConc ==
    /\ catalog = <<>>
    /\ runs = <<>>
    /\ activeRun = 0
    /\ clock = 0
    /\ live = {}
    /\ serialized = FALSE
    /\ req = [t \in Threads |-> Idle]
    /\ cin = EmptyMap
    /\ cout = <<>>

\* The requests that write: the read-only handlers change neither the
\* catalog nor the tracking store and are left to Spec.
NextConc ==
    \E t \in Threads :
        \/ TrainModel_post(t)
        \/ ModelRetrain_post(t)
        \/ train_recover(t)
        \/ train_fit(t)
        \/ train_start_run(t)
        \/ train_log(t)
        \/ train_exit(t)
        \/ TrainModel_commit(t)
        \/ ModelRetrain_commit(t)
        \/ ModelById_delete(t)
        \/ Return(t)

SpecConc == InitConc /\ [][NextConc]_vars

\* ------------------------------------- convert_params called on its own
Strings == UNION {[1..n -> Chars] : n \in 0..MaxStrLen}

TypedValues == {PyInt(42), PyFloat(50), PyBool(1)}

ConvertInputs ==
    {("x" :> PyStr(s)) : s \in Strings}
    \cup {("x" :> v) : v \in TypedValues}
    \cup {("x" :> PyStr(s)) @@ ("random_state" :> v) : s \in Strings, v \in TypedValues}

InitConvert ==
    /\ catalog = <<>>
    /\ runs = <<>>
    /\ activeRun = 0
    /\ clock = 0
    /\ live = {}
    /\ serialized = TRUE
    /\ req = [t \in Threads |-> Idle]
    /\ cin \in ConvertInputs
    /\ cout = <<>>

ConvertCall ==
    /\ cout = <<>>
    /\ cout' = <<convert_params(cin)>>
    /\ UNCHANGED <<catalog, runs, activeRun, clock, live, serialized, req, cin>>

NextConvert == ConvertCall

SpecConvert == InitConvert /\ [][NextConvert]_vars

\* ================================================================ claims
Done(t) == req[t].pc = "done"

RowsWithId(cat, model_id) == {i \in 1..Len(cat) : cat[i].id = model_id}

\* the failures the orchestrator can end with
OrchestratorFailures ==
    {"ValueError", "KeyError", "InvalidHyperparameters", "TrainingFailure",
     "TrackingFailure"}

\* train_and_log_model has returned its triple to the handler
TrainCallReturned(r) ==
    /\ r.op \in {"train", "retrain"}
    /\ r.pc = "commit" \/ (r.pc = "done" /\ r.site \in {"ok", "error"})

\* C1: when a retrain request on an existing id has answered with success,
\* the old id no longer resolves, exactly one record has the new run id, that
\* id is new, and the record carries the old record's model_type and params
\* and the metrics this retraining computed (the ones logged to its run).
C1_RetrainReplacesRecord ==
    \A t \in Threads :
        LET r == req[t] IN
        (Done(t) /\ r.op = "retrain" /\ r.site = "ok") =>
            /\ Lookup(catalog, r.id) = <<>>
            /\ Cardinality(RowsWithId(catalog, r.run_id)) = 1
            /\ r.run_id # r.id
            /\ r.run_id \notin IdsOf(r.cat0)
            /\ Lookup(r.cat0, r.id) # <<>>
            /\ LET new == Lookup(catalog, r.run_id)[1]
                   old == Lookup(r.cat0, r.id)[1]
               IN  /\ new.model_type = old.model_type
                   /\ new.params = old.params
                   /\ new.metrics = r.metrics
                   /\ new.metrics = runs[r.run_id].metrics

C1_Witness ==
    \E t \in Threads :
        /\ Done(t) /\ req[t].op = "retrain" /\ req[t].site = "ok"
        /\ req[t].metrics # req[t].rec[1].metrics

\* C2: when the orchestrator fails during a train or retrain request, the
\* catalog after the request is the catalog before it; for retrain the
\* original record is still there, unchanged, under its id.
C2_FailedTrainingLeavesCatalog ==
    \A t \in Threads :
        LET r == req[t] IN
        (Done(t) /\ r.op \in {"train", "retrain"} /\ r.exc \in OrchestratorFailures) =>
            /\ catalog = r.cat0
            /\ r.op = "retrain" => Lookup(catalog, r.id) = r.rec

C2_Witness ==
    \E t \in Threads :
        /\ Done(t) /\ req[t].op = "retrain"
        /\ req[t].exc \in {"TrainingFailure", "TrackingFailure"}
        /\ Lookup(catalog, req[t].id) # <<>>

\* C3: a step that rejects a request by validation (400 unsupported model
\* type, 404 unknown id) changes neither the catalog nor the tracking store:
\* no run is opened, ended or written to.
C3_RejectionHasNoSideEffects ==
    [][\A t \in Threads :
          (req[t].pc = "idle" /\ req'[t].pc = "done"
              /\ req'[t].site \in {"unsupported", "not_found"})
          => (catalog' = catalog /\ runs' = runs /\ activeRun' = activeRun)]_vars

C3_Witness ==
    \E t \in Threads :
        /\ Done(t) /\ req[t].op = "retrain" /\ req[t].site = "not_found"
        /\ Len(runs) > 0
        /\ catalog # <<>>

\* C4: the catalog is a map keyed by id: ids are unique, the ids present are
\* exactly those created and not deleted or replaced since, get answers 200
\* exactly for those and 404 otherwise, after a successful delete the id does
\* not resolve, and list holds every live record exactly once.
C4_CatalogIsMap ==
    /\ \A i, j \in 1..Len(catalog) : catalog[i].id = catalog[j].id => i = j
    /\ IdsOf(catalog) = live
    /\ \A t \in Threads :
          LET r == req[t] IN
          Done(t) =>
            /\ r.op = "get" =>
                  /\ (r.site = "ok") <=> (r.id \in live)
                  /\ (r.site # "ok") => (r.site = "not_found" /\ r.status = 404)
                  /\ (r.site = "ok") => r.rows = <<to_dict(Lookup(catalog, r.id)[1])>>
            /\ (r.op = "delete" /\ r.site = "ok") => Lookup(catalog, r.id) = <<>>
            /\ r.op = "list" =>
                  /\ Len(r.rows) = Cardinality(live)
                  /\ \A id \in live : Cardinality(RowsWithId(r.rows, id)) = 1

C4_Witness ==
    \E t \in Threads :
        /\ Done(t) /\ req[t].op = "delete" /\ req[t].site = "ok"
        /\ catalog # <<>>

\* what the claim C5 says convert_params returns for one value
OnlyDecimalDigits(s) == Len(s) > 0 /\ \A i \in 1..Len(s) : s[i] \in DecimalChars

C5_Expected(v, w) ==
    IF v.t # "str" THEN w = v
    ELSE IF OnlyDecimalDigits(v.s) THEN w = PyInt(IntValue(v.s))
    ELSE IF ~FloatRaises(v.s) THEN w = PyFloat(FloatValue(v.s))
    ELSE w = v

\* C5: for every input mapping convert_params returns a mapping with the
\* same keys, where a string of decimal digits only has become the int, any
\* other string that parses as a number a float, a string that does not
\* parse is unchanged, and a value that is not a string is unchanged.
C5_ConvertParamsClassifies ==
    cout # <<>> =>
        /\ ~cout[1].raises
        /\ DOMAIN cout[1].value = DOMAIN cin
        /\ \A k \in DOMAIN cin : C5_Expected(cin[k], cout[1].value[k])

C7_MetricsAlwaysThreeKeys ==
    /\ \A i \in 1..Len(catalog) :
          DOMAIN catalog[i].metrics = {"accuracy", "precision", "recall"}
    /\ \A t \in Threads :
          LET r == req[t] IN
          (Done(t) /\ r.op \in {"train", "retrain"} /\ r.site = "ok" /\ r.degraded) =>
              /\ Lookup(catalog, r.run_id) # <<>>
              /\ \A k \in {"accuracy", "precision", "recall"} :
                    Lookup(catalog, r.run_id)[1].metrics[k] = 0

C7_Witness ==
    \E t \in Threads :
        /\ Done(t) /\ req[t].op = "train" /\ req[t].site = "ok"
        /\ req[t].degraded

\* C8: after a successful train request with raw params p, the stored
\* record's params are the normaliser's output for p.
C8_StoredParamsAreNormalised ==
    \A t \in Threads :
        LET r == req[t] IN
        (Done(t) /\ r.op = "train" /\ r.site = "ok") =>
            /\ Lookup(catalog, r.run_id) # <<>>
            /\ Lookup(catalog, r.run_id)[1].params = convert_params(r.params).value

\* outcome classes of the two transports
RestClass(status) ==
    IF status = 404 THEN "not-found"
    ELSE IF status >= 400 /\ status < 500 THEN "client-error"
    ELSE IF status >= 500 THEN "server-error"
    ELSE "success"

GrpcClass(code) ==
    IF code = "NOT_FOUND" THEN "not-found"
    ELSE IF code = "INVALID_ARGUMENT" THEN "client-error"
    ELSE IF code \in {"INTERNAL", "UNKNOWN"} THEN "server-error"
    ELSE "success"

C9_ExpectedClass(exc) ==
    IF exc \in {"UnsupportedModelType", "InvalidHyperparameters"} THEN "client-error"
    ELSE IF exc = "NotFound" THEN "not-found"
    ELSE "server-error"

\* C9: each failure kind gets its outcome class: UnsupportedModelType and
\* InvalidHyperparameters a client error, NotFound not-found,
\* TrainingFailure and ArtifactLoadFailure a server error.
C9_FailureKindsMapToClasses ==
    \A t \in Threads :
        LET r == req[t] IN
        (Done(t) /\ r.exc \in {"UnsupportedModelType", "InvalidHyperparameters",
                               "NotFound", "TrainingFailure", "ArtifactLoadFailure"}) =>
            /\ RestClass(r.status) = C9_ExpectedClass(r.exc)
            /\ GrpcClass(GrpcStatus(r.op, r.site)) = C9_ExpectedClass(r.exc)

\* C10: no step changes a record that stays in the catalog: a row whose id
\* is present before and after a step is the same row, with the same
\* model_type, params, file_path, created_at and metrics; a step only
\* inserts rows under ids not present before or removes rows.
C10_RecordsAreImmutable ==
    [][/\ \A i \in 1..Len(catalog) :
            catalog[i].id \in IdsOf(catalog')
                => Lookup(catalog', catalog[i].id) = <<catalog[i]>>
       /\ \A j \in 1..Len(catalog') :
            catalog'[j].id \in IdsOf(catalog)
                => Lookup(catalog, catalog'[j].id) = <<catalog'[j]>>]_vars

C10_Witness ==
    \E t \in Threads :
        /\ Done(t) /\ req[t].op = "retrain" /\ req[t].site = "ok"
        /\ Len(catalog) = 1
        /\ Len(req[t].cat0) = 1

\* the request of thread t is inside train_and_log_model, past its first step
PastRecovery(t) ==
    /\ req[t].op \in {"train", "retrain"}
    /\ req[t].pc \in {"fit", "start_run", "log", "exit", "commit", "done"}
    /\ req[t].pc = "done" => req[t].site \in {"ok", "error", "failed"}

\* C11: a train call that found a tracking session open when it started has
\* ended that session and logged the warning in its first step: from
\* construction and fitting onwards (and when the call opens its own session)
\* the session it found is no longer open, and a call that found none has not
\* warned.
C11_StaleSessionEndedFirst ==
    \A t \in Threads :
        PastRecovery(t) =>
            /\ req[t].warned <=> req[t].stale # 0
            /\ req[t].stale # 0 =>
                  /\ req[t].stale \in 1..Len(runs)
                  /\ runs[req[t].stale].status # "RUNNING"
                  /\ req[t].stale # req[t].run

C11_Witness ==
    \E t \in Threads :
        /\ req[t].pc = "log"
        /\ req[t].stale # 0
        /\ req[t].warned
        /\ req[t].est # <<>>

\* the runs opened since the request of thread t started
OpenedSince(t) == {i \in 1..Len(runs) : i > req[t].nruns0}

\* C12: a train call that runs on its own opens at most one tracking session,
\* opens it only once the estimator is fitted and the metrics are computed,
\* and has closed it when the call has returned or failed, a failure of a
\* logging step included: after the call no run is open.
C12_OneSessionPerCallClosedAtEnd ==
    \A t \in Threads :
        LET r == req[t] IN
        r.op \in {"train", "retrain"} =>
            /\ Cardinality(OpenedSince(t)) <= 1
            /\ r.pc \in {"recover", "fit", "start_run"} => OpenedSince(t) = {}
            /\ OpenedSince(t) # {} =>
                  /\ OpenedSince(t) = {r.run}
                  /\ r.est # <<>>
                  /\ DOMAIN r.metrics = {"accuracy", "precision", "recall"}
            /\ r.pc \in {"commit", "done"} =>
                  /\ activeRun = 0
                  /\ \A i \in 1..Len(runs) : runs[i].status \in {"FINISHED", "FAILED"}
            /\ (Done(t) /\ r.exc = "TrackingFailure" /\ r.run # 0) =>
                  runs[r.run].status = "FAILED"

C12_Witness ==
    \E t \in Threads :
        /\ Done(t)
        /\ req[t].exc = "TrackingFailure"
        /\ req[t].logfail
        /\ req[t].run \in 1..Len(runs)
        /\ "params" \in runs[req[t].run].logged
        /\ runs[req[t].run].status = "FAILED"

\* C13: when train and retrain calls overlap, each call's own tracking session
\* stays the open one from the moment the call opened it until the call closes
\* it (no other call's recovery step ends it), and what the call logged (tag,
\* params, metrics, estimator) is in the session the call opened itself.
C13_SessionsAreIsolated ==
    \A t \in Threads :
        LET r == req[t] IN
        (r.op \in {"train", "retrain"} /\ r.run # 0) =>
            /\ r.pc \in {"log", "exit"} =>
                  /\ activeRun = r.run
                  /\ runs[r.run].status = "RUNNING"
            /\ r.pc = "commit" =>
                  /\ runs[r.run].logged = {"model_type", "params", "metrics", "model"}
                  /\ runs[r.run].tag = r.model_type
                  /\ runs[r.run].params = r.conv
                  /\ runs[r.run].metrics = r.metrics
                  /\ runs[r.run].model = r.est

\* the request of thread t has answered that it removed the record r.id
RemovedRecord(t) ==
    /\ Done(t)
    /\ req[t].op \in {"retrain", "delete"}
    /\ req[t].site = "ok"

\* C14: of the retrain and delete requests that overlap on one id at most one
\* answers with success: a record is never both deleted and replaced, or
\* replaced twice, so a retrain that read the record before a successful
\* delete does not insert a successor for it.
C14_AtMostOneRemoverWins ==
    \A t, u \in Threads :
        (t # u /\ RemovedRecord(t) /\ RemovedRecord(u)) => req[t].id # req[u].id

\* C15: retrain removes the old record and inserts the new one in one commit.
\* For a retrain with no other request on its id, the record it read stays in
\* the catalog, unchanged, until the commit; after a successful commit the new
\* record is there and the old one is gone; after a failed commit the catalog
\* is the one the request started from, with the old record.  In no state are
\* both the old record and its replacement absent.
C15_RetrainCommitIsAtomic ==
    \A t \in Threads :
        LET r == req[t] IN
        (r.op = "retrain" /\ r.rec # <<>>) =>
            /\ Lookup(catalog, r.id) # <<>>
                  \/ (r.run_id # 0 /\ Lookup(catalog, r.run_id) # <<>>)
            /\ ~Done(t) => Lookup(catalog, r.id) = r.rec
            /\ (Done(t) /\ r.site = "ok") =>
                  /\ Lookup(catalog, r.id) = <<>>
                  /\ Lookup(catalog, r.run_id) # <<>>
            /\ (Done(t) /\ r.site # "ok") =>
                  /\ catalog = r.cat0
                  /\ Lookup(catalog, r.id) = r.rec

C15_Witness ==
    \E t \in Threads :
        /\ Done(t)
        /\ req[t].op = "retrain"
        /\ req[t].exc = "CommitFailure"
        /\ req[t].run_id # 0
        /\ Lookup(catalog, req[t].id) = req[t].rec
        /\ Lookup(catalog, req[t].run_id) = <<>>

\* C16: every catalog record's id is the id of a tracking run that is closed
\* and holds the logged estimator, the record's file_path is runs:/{id}/model,
\* and the artifact that path names is present in the tracking store (for
\* every live record, whatever was deleted or retrained before).
C16_RecordsPointAtLoggedArtifacts ==
    \A i \in 1..Len(catalog) :
        LET rec == catalog[i] IN
        /\ rec.id \in 1..Len(runs)
        /\ runs[rec.id].status = "FINISHED"
        /\ "model" \in runs[rec.id].logged
        /\ runs[rec.id].model # <<>>
        /\ rec.file_path = ModelUri(rec.id)
        /\ ArtifactPresent(rec.file_path)

====
